---- MODULE Spec2Model ----
(***************************************************************************)
(* Model of src/index.js: the WhatsApp invoice bot.  A message with media  *)
(* is downloaded, turned into text (pdf-parse or jimp + Tesseract), sent   *)
(* to the chat-completion endpoint, the answer is parsed and validated     *)
(* (parseWithOpenAI), appended to the spreadsheet (saveToSheet) and        *)
(* answered with a recap and a confirmation, or with one error reply.      *)
(*                                                                         *)
(* Strings are sequences of tokens.  A token is a maximal piece of text    *)
(* the code's string operations never split: a fence, "json", "image", a   *)
(* JSON punctuation mark, a whitespace character, a word.  No two adjacent *)
(* tokens of the inputs below join into a new occurrence of a fence, "json"*)
(* or "image", so the token-level operations agree with the character-level*)
(* ones of the code on these inputs.                                       *)
(*                                                                         *)
(* JSON values are tagged tuples: <<"null">>, <<"bool", b>>, <<"num", n>>, *)
(* <<"str", tokens>>, <<"arr", elements>>, <<"obj", members>> with members *)
(* a sequence of <<key, value>> pairs in document order; <<"undefined">>   *)
(* is JavaScript's undefined (the value of a missing property).            *)
(***************************************************************************)
EXTENDS Integers, Sequences, FiniteSets, TLC

----------------------------------------------------------------------------
(* JavaScript string primitives, on token sequences *)

Min(a, b) == IF a < b THEN a ELSE b
Max(a, b) == IF a > b THEN a ELSE b
Clamp(x, n) == Max(0, Min(x, n))

\* String.prototype.substring(start, end): both indexes clamped to
\* [0, length], swapped when start > end, characters start .. end-1.
Substring(s, start, end) ==
  LET a == Clamp(start, Len(s))
      b == Clamp(end, Len(s))
  IN  SubSeq(s, Min(a, b) + 1, Max(a, b))

WS == {" ", "\n"}

RECURSIVE TrimStart(_)
TrimStart(s) ==
  IF s # <<>> /\ Head(s) \in WS THEN TrimStart(Tail(s)) ELSE s

RECURSIVE TrimEnd(_)
TrimEnd(s) ==
  IF s # <<>> /\ s[Len(s)] \in WS THEN TrimEnd(SubSeq(s, 1, Len(s) - 1)) ELSE s

\* String.prototype.trim()
Trim(s) == TrimEnd(TrimStart(s))

\* the three backtick characters that open and close a fenced code block
Fence == "<fence>"

\* content.startsWith(Fence)
StartsWithFence(s) == s # <<>> /\ Head(s) = Fence

\* content.replace(/FENCE(json)?/g, ''): every fence goes, and with it a "json"
\* that follows it immediately, wherever in the text they stand.
StripFences(s) ==
  LET pairs == [i \in 1..Len(s) |-> << IF i = 1 THEN "" ELSE s[i - 1], s[i] >>]
      Kept(p) == p[2] # Fence /\ ~(p[2] = "json" /\ p[1] = Fence)
      kept == SelectSeq(pairs, Kept)
  IN  [i \in 1..Len(kept) |-> kept[i][2]]

\* mimetype.includes('image')
IncludesImage(mimetype) == \E i \in 1..Len(mimetype) : mimetype[i] = "image"

----------------------------------------------------------------------------
(* JSON values and JSON.parse *)

Undefined == <<"undefined">>
Null == <<"null">>
Bool(b) == <<"bool", b>>
Num(n) == <<"num", n>>
Str(s) == <<"str", s>>
Arr(a) == <<"arr", a>>
Obj(ms) == <<"obj", ms>>

TypeOf(v) == v[1]

Key(k) == <<k>>

\* o[k] = v on an object: an existing property keeps its place and takes the
\* new value, a new property goes last.
SetProp(o, k, v) ==
  LET ms == o[2]
  IN  IF \E i \in 1..Len(ms) : ms[i][1] = k
      THEN Obj([i \in 1..Len(ms) |-> IF ms[i][1] = k THEN <<k, v>> ELSE ms[i]])
      ELSE Obj(Append(ms, <<k, v>>))

\* v.k read on a value that is neither null nor undefined: the property of an
\* object, undefined on anything else (none of the keys read by the code is
\* a built-in property of a string, number, boolean or array).
Get(v, k) ==
  IF TypeOf(v) = "obj" /\ \E i \in 1..Len(v[2]) : v[2][i][1] = Key(k)
  THEN v[2][CHOOSE i \in 1..Len(v[2]) : v[2][i][1] = Key(k)][2]
  ELSE Undefined

\* reading a property of null or undefined throws a TypeError
Nullish(v) == TypeOf(v) \in {"null", "undefined"}

\* !v
Falsy(v) ==
  \/ Nullish(v)
  \/ (TypeOf(v) = "bool" /\ ~v[2])
  \/ (TypeOf(v) = "num" /\ v[2] = 0)
  \/ (TypeOf(v) = "str" /\ v[2] = <<>>)

NumTok == {"0", "10", "50", "100", "110", "2"}
NumVal(tok) ==
  CASE tok = "0" -> 0 [] tok = "2" -> 2 [] tok = "10" -> 10
    [] tok = "50" -> 50 [] tok = "100" -> 100 [] tok = "110" -> 110

RECURSIVE SkipWs(_, _)
SkipWs(t, i) == IF i <= Len(t) /\ t[i] \in WS THEN SkipWs(t, i + 1) ELSE i

RECURSIVE FindQuote(_, _)
FindQuote(t, i) ==
  IF i > Len(t) THEN 0 ELSE IF t[i] = "\"" THEN i ELSE FindQuote(t, i + 1)

ParseFail == [ok |-> FALSE, val |-> Undefined, next |-> 0]
ParseOk(v, n) == [ok |-> TRUE, val |-> v, next |-> n]

\* a string literal starting at the quote t[i]
ParseString(t, i) ==
  LET j == FindQuote(t, i + 1)
  IN  IF j = 0 THEN ParseFail ELSE ParseOk(Str(SubSeq(t, i + 1, j - 1)), j + 1)

RECURSIVE ParseValue(_, _)
RECURSIVE ParseElements(_, _, _)
RECURSIVE ParseMembers(_, _, _)

\* the elements of an array, i on the first token of an element
ParseElements(t, i, acc) ==
  LET r == ParseValue(t, i)
      k == SkipWs(t, r.next)
  IN  IF ~r.ok \/ k > Len(t) THEN ParseFail
      ELSE IF t[k] = "]" THEN ParseOk(Arr(Append(acc, r.val)), k + 1)
      ELSE IF t[k] = "," THEN ParseElements(t, SkipWs(t, k + 1), Append(acc, r.val))
      ELSE ParseFail

\* the members of an object, i on the quote of a key
ParseMembers(t, i, acc) ==
  IF i > Len(t) \/ t[i] # "\"" THEN ParseFail
  ELSE
    LET key == ParseString(t, i)
        c   == SkipWs(t, key.next)
    IN  IF ~key.ok \/ c > Len(t) \/ t[c] # ":" THEN ParseFail
        ELSE
          LET r == ParseValue(t, SkipWs(t, c + 1))
              k == SkipWs(t, r.next)
              ms == SetProp(Obj(acc), key.val[2], r.val)[2]
          IN  IF ~r.ok \/ k > Len(t) THEN ParseFail
              ELSE IF t[k] = "}" THEN ParseOk(Obj(ms), k + 1)
              ELSE IF t[k] = "," THEN ParseMembers(t, SkipWs(t, k + 1), ms)
              ELSE ParseFail

ParseValue(t, i) ==
  IF i > Len(t) THEN ParseFail
  ELSE IF t[i] = "null" THEN ParseOk(Null, i + 1)
  ELSE IF t[i] = "true" THEN ParseOk(Bool(TRUE), i + 1)
  ELSE IF t[i] = "false" THEN ParseOk(Bool(FALSE), i + 1)
  ELSE IF t[i] \in NumTok THEN ParseOk(Num(NumVal(t[i])), i + 1)
  ELSE IF t[i] = "\"" THEN ParseString(t, i)
  ELSE IF t[i] = "["
       THEN LET k == SkipWs(t, i + 1)
            IN  IF k <= Len(t) /\ t[k] = "]" THEN ParseOk(Arr(<<>>), k + 1)
                ELSE ParseElements(t, k, <<>>)
  ELSE IF t[i] = "{"
       THEN LET k == SkipWs(t, i + 1)
            IN  IF k <= Len(t) /\ t[k] = "}" THEN ParseOk(Obj(<<>>), k + 1)
                ELSE ParseMembers(t, k, <<>>)
  ELSE ParseFail

\* JSON.parse(text): one value, whitespace around it, nothing else
JSONParse(t) ==
  LET r == ParseValue(t, SkipWs(t, 1))
  IN  IF r.ok /\ SkipWs(t, r.next) > Len(t)
      THEN [ok |-> TRUE, val |-> r.val]
      ELSE [ok |-> FALSE, val |-> Undefined]

----------------------------------------------------------------------------
(* The functions of src/index.js *)

Return(v) == [kind |-> "return", message |-> "", val |-> v]
Throw(msg) == [kind |-> "throw", message |-> msg, val |-> Undefined]

ErrUnsupported == "Tipe file tidak didukung"
ErrIncomplete == "Data invoice tidak lengkap"
ErrSyntax == "SyntaxError"
ErrType == "TypeError"

MaxPromptChars == 4000

PromptHead == <<"Anda adalah sistem ekstraksi data invoice profesional", "\n",
                "Teks invoice aktual:", "\n">>
PromptTail == <<"\n">>

\* mutant: the cut is one character late
BuildPromptOffByOne(text) ==
  PromptHead \o Substring(text, 0, MaxPromptChars + 1) \o PromptTail

\* the template literal of parseWithOpenAI: the instructions, then the first
\* 4000 characters of the text, then a newline
BuildPrompt(text) ==
  PromptHead \o Substring(text, 0, MaxPromptChars) \o PromptTail

\* content.trim(), then the fence cleaning when the content starts with one
CleanContent(content) ==
  LET c == Trim(content)
  IN  IF StartsWithFence(c) THEN Trim(StripFences(c)) ELSE c

\* mutant: only null and undefined count as missing
IncompleteNullOnly(parsed) ==
  Nullish(Get(parsed, "invoiceNo")) \/ Nullish(Get(parsed, "date"))

\* !parsed.invoiceNo || !parsed.date
Incomplete(parsed) ==
  Falsy(Get(parsed, "invoiceNo")) \/ Falsy(Get(parsed, "date"))

\* mutant: if (!parsed.tax) parsed.tax = 0
CoerceTaxFalsy(parsed) ==
  IF Falsy(Get(parsed, "tax"))
  THEN SetProp(parsed, Key("tax"), Num(0))
  ELSE parsed

\* if (typeof parsed.tax !== 'number') parsed.tax = 0
CoerceTax(parsed) ==
  IF TypeOf(Get(parsed, "tax")) # "num"
  THEN SetProp(parsed, Key("tax"), Num(0))
  ELSE parsed

\* mutant: a malformed completion is taken for an empty object
parseLenient(content) ==
  LET p == JSONParse(CleanContent(content))
      parsed == IF p.ok THEN p.val ELSE Obj(<<>>)
  IN  IF Nullish(parsed) THEN Throw(ErrType)
      ELSE IF Incomplete(parsed) THEN Throw(ErrIncomplete)
      ELSE Return(CoerceTax(parsed))

\* parseWithOpenAI from the completion's content on: clean, JSON.parse,
\* validate, coerce the tax, return
parseWithOpenAI(content) ==
  LET p == JSONParse(CleanContent(content))
  IN  IF ~p.ok THEN Throw(ErrSyntax)
      ELSE IF Nullish(p.val) THEN Throw(ErrType)
      ELSE IF Incomplete(p.val) THEN Throw(ErrIncomplete)
      ELSE Return(CoerceTax(p.val))

\* one row of saveToSheet
SheetRow(invoiceData, item, timestamp) ==
  << Get(invoiceData, "invoiceNo"), Get(invoiceData, "date"),
     Get(invoiceData, "seller"), Get(invoiceData, "buyer"),
     Get(item, "name"), Get(item, "quantity"),
     Get(item, "unitPrice"), Get(item, "subtotal"),
     Get(invoiceData, "tax"), Get(invoiceData, "total"), Num(timestamp) >>

\* mutant: the rows are built last item first
SheetRowsReversed(invoiceData, timestamp) ==
  LET items == Get(invoiceData, "items")
  IN  IF TypeOf(items) # "arr" THEN Throw(ErrType)
      ELSE IF \E i \in 1..Len(items[2]) : Nullish(items[2][i]) THEN Throw(ErrType)
      ELSE Return([i \in 1..Len(items[2]) |->
                     SheetRow(invoiceData, items[2][Len(items[2]) + 1 - i],
                              timestamp)])

\* invoiceData.items.map(item => [...]): a TypeError when items is no array
\* or an item is null
SheetRows(invoiceData, timestamp) ==
  LET items == Get(invoiceData, "items")
  IN  IF TypeOf(items) # "arr" THEN Throw(ErrType)
      ELSE IF \E i \in 1..Len(items[2]) : Nullish(items[2][i]) THEN Throw(ErrType)
      ELSE Return([i \in 1..Len(items[2]) |->
                     SheetRow(invoiceData, items[2][i], timestamp)])

\* x.toLocaleString('id-ID') throws a TypeError on null and undefined
LocaleThrows(x) == Nullish(x)

\* the recap template of the message handler, evaluated after saveToSheet
\* returned (so items is an array without null items): the values it
\* interpolates, or the TypeError of a toLocaleString call on null/undefined
RecapMessage(invoiceData) ==
  LET items == Get(invoiceData, "items")[2]
  IN  IF \/ LocaleThrows(Get(invoiceData, "tax"))
         \/ LocaleThrows(Get(invoiceData, "total"))
         \/ \E i \in 1..Len(items) :
              \/ LocaleThrows(Get(items[i], "unitPrice"))
              \/ LocaleThrows(Get(items[i], "subtotal"))
      THEN Throw(ErrType)
      ELSE Return(
             << Get(invoiceData, "invoiceNo"), Get(invoiceData, "date"),
                Get(invoiceData, "seller"), Get(invoiceData, "buyer"),
                Get(invoiceData, "tax"), Get(invoiceData, "total") >>
             \o [i \in 1..Len(items) |->
                   << Num(i), Get(items[i], "name"), Get(items[i], "quantity"),
                      Get(items[i], "unitPrice"), Get(items[i], "subtotal") >>])

RecapReply(body) == [kind |-> "recap", body |-> body]
ConfirmReply == [kind |-> "confirm", body |-> <<>>]
ErrorReply(msg) == [kind |-> "error", body |-> <<msg>>]

PdfMime == <<"application", "/", "pdf">>

----------------------------------------------------------------------------
(* The message handler as a state machine, one run per inbound message *)

VARIABLES
  pc,           \* pc[m]: where the handler of message m is suspended
  hasMedia,     \* hasMedia[m]: msg.hasMedia
  caught,       \* caught[m]: the message of the error the handler caught
  mime,         \* mime[m]: media.mimetype of the downloaded media
  text,         \* text[m]: the text processMedia extracted
  prompt,       \* prompt[m]: the user prompt sent to the completion endpoint
  content,      \* content[m]: the content of the completion received
  invoiceData,  \* invoiceData[s]: the handler's invoiceData constant
  pending,      \* pending[m]: the rows of the append request in flight
  replies,      \* replies[m]: the replies sent to the sender, in order
  calls,        \* calls[m]: the external calls made for m, by kind
  saved,        \* saved[m]: "no", or "ok"/"failed" once the append settled
  sheet,        \* the rows of Sheet1, in append order
  clock         \* the wall clock

vars == << pc, hasMedia, caught, mime, text, prompt, content, invoiceData, pending, replies,
           calls, saved, sheet, clock >>

NumMsgs == 2
MaxClock == 1

Msgs == 1..NumMsgs

\* a local of the handler that has no value yet
Unset == <<"<unset>">>
NoError == ""

NoCalls == [pdf |-> 0, jimp |-> 0, ocr |-> 0, completion |-> 0, append |-> 0]

\* mutant: invoiceData is one variable of the module, shared by all runs
SharedSlot(m) == 1

\* const invoiceData is local to one run of the handler: each message has
\* its own
Slot(m) == m

InitOver(M) ==
  /\ pc = [m \in M |-> "idle"]
  /\ hasMedia = [m \in M |-> FALSE]
  /\ caught = [m \in M |-> NoError]
  /\ mime = [m \in M |-> Unset]
  /\ text = [m \in M |-> Unset]
  /\ prompt = [m \in M |-> Unset]
  /\ content = [m \in M |-> Unset]
  /\ invoiceData = [m \in M |-> Undefined]
  /\ pending = [m \in M |-> <<>>]
  /\ replies = [m \in M |-> <<>>]
  /\ calls = [m \in M |-> NoCalls]
  /\ saved = [m \in M |-> "no"]
  /\ sheet = <<>>
  /\ clock = 0

\* catch (error) { msg.reply(... error.message) }: the run ends there
Caught(m, msg) ==
  /\ caught' = [caught EXCEPT ![m] = msg]
  /\ replies' = [replies EXCEPT ![m] = Append(@, ErrorReply(msg))]
  /\ pc' = [pc EXCEPT ![m] = "done"]

Called(m, kind) == calls' = [calls EXCEPT ![m][kind] = @ + 1]

\* client.on('message'): nothing is done for a message without media
Receive(m) ==
  /\ pc[m] = "idle"
  /\ \E media \in BOOLEAN :
       /\ hasMedia' = [hasMedia EXCEPT ![m] = media]
       /\ pc' = [pc EXCEPT ![m] = IF media THEN "download" ELSE "done"]
  /\ UNCHANGED << caught, mime, text, prompt, content, invoiceData, pending, replies,
                  calls, saved, sheet, clock >>

\* msg.downloadMedia() resolved; processMedia runs to its first await, or
\* throws for a type that is neither the PDF type nor contains 'image'
DownloadOk(m, M) ==
  /\ pc[m] = "download"
  /\ \E mt \in M :
       /\ mime' = [mime EXCEPT ![m] = mt]
       /\ IF mt = PdfMime
          THEN /\ pc' = [pc EXCEPT ![m] = "pdf"]
               /\ Called(m, "pdf")
               /\ UNCHANGED << replies, caught >>
          ELSE IF IncludesImage(mt)
          THEN /\ pc' = [pc EXCEPT ![m] = "jimp"]
               /\ Called(m, "jimp")
               /\ UNCHANGED << replies, caught >>
          ELSE /\ Caught(m, ErrUnsupported)
               /\ UNCHANGED calls
  /\ UNCHANGED << hasMedia, text, prompt, content, invoiceData, pending, saved, sheet,
                  clock >>

\* msg.downloadMedia() rejected, or resolved to no media
DownloadFail(m) ==
  /\ pc[m] = "download"
  /\ Caught(m, "download")
  /\ UNCHANGED << hasMedia, mime, text, prompt, content, invoiceData, pending, calls,
                  saved, sheet, clock >>

\* processMedia has its text and returns parseWithOpenAI(text), which builds
\* the prompt and awaits openai.chat.completions.create
Extracted(m, t) ==
  /\ text' = [text EXCEPT ![m] = t]
  /\ prompt' = [prompt EXCEPT ![m] = BuildPrompt(t)]
  /\ Called(m, "completion")
  /\ pc' = [pc EXCEPT ![m] = "completion"]

\* pdf(buffer) resolved
PdfOk(m, T) ==
  /\ pc[m] = "pdf"
  /\ \E t \in T : Extracted(m, t)
  /\ UNCHANGED << hasMedia, caught, mime, content, invoiceData, pending, replies, saved, sheet,
                  clock >>

\* pdf(buffer) rejected
PdfFail(m) ==
  /\ pc[m] = "pdf"
  /\ Caught(m, "pdf")
  /\ UNCHANGED << hasMedia, mime, text, prompt, content, invoiceData, pending, calls,
                  saved, sheet, clock >>

\* jimp.read, enhanceImage and getBufferAsync resolved; Tesseract.recognize
\* is awaited
JimpOk(m) ==
  /\ pc[m] = "jimp"
  /\ pc' = [pc EXCEPT ![m] = "ocr"]
  /\ Called(m, "ocr")
  /\ UNCHANGED << hasMedia, caught, mime, text, prompt, content, invoiceData, pending, replies,
                  saved, sheet, clock >>

\* jimp could not decode or encode the image
JimpFail(m) ==
  /\ pc[m] = "jimp"
  /\ Caught(m, "jimp")
  /\ UNCHANGED << hasMedia, mime, text, prompt, content, invoiceData, pending, calls,
                  saved, sheet, clock >>

\* Tesseract.recognize resolved
OcrOk(m, T) ==
  /\ pc[m] = "ocr"
  /\ \E t \in T : Extracted(m, t)
  /\ UNCHANGED << hasMedia, caught, mime, content, invoiceData, pending, replies, saved, sheet,
                  clock >>

\* Tesseract.recognize rejected
OcrFail(m) ==
  /\ pc[m] = "ocr"
  /\ Caught(m, "ocr")
  /\ UNCHANGED << hasMedia, mime, text, prompt, content, invoiceData, pending, calls,
                  saved, sheet, clock >>

\* the completion arrived: parseWithOpenAI finishes; on a record the handler
\* enters saveToSheet, which reads the clock, builds the rows and awaits the
\* append
CompletionReturn(m, C) ==
  /\ pc[m] = "completion"
  /\ \E c \in C :
       LET r == parseWithOpenAI(c)
       IN  /\ content' = [content EXCEPT ![m] = c]
           /\ IF r.kind = "throw"
              THEN /\ Caught(m, r.message)
                   /\ UNCHANGED << invoiceData, pending, calls, clock >>
              ELSE \E now \in clock..Min(clock + 1, MaxClock) :
                     LET rows == SheetRows(r.val, now)
                     IN  /\ invoiceData' = [invoiceData EXCEPT ![Slot(m)] = r.val]
                         /\ clock' = now
                         /\ IF rows.kind = "throw"
                            THEN /\ Caught(m, rows.message)
                                 /\ UNCHANGED << pending, calls >>
                            ELSE /\ pending' = [pending EXCEPT ![m] = rows.val]
                                 /\ Called(m, "append")
                                 /\ pc' = [pc EXCEPT ![m] = "append"]
                                 /\ UNCHANGED << replies, caught >>
  /\ UNCHANGED << hasMedia, mime, text, prompt, saved, sheet >>

\* the completion has no first choice or no content: reading it throws
CompletionEmpty(m) ==
  /\ pc[m] = "completion"
  /\ Caught(m, ErrType)
  /\ UNCHANGED << hasMedia, mime, text, prompt, content, invoiceData, pending, calls,
                  saved, sheet, clock >>

\* openai.chat.completions.create rejected
CompletionFail(m) ==
  /\ pc[m] = "completion"
  /\ Caught(m, "completion")
  /\ UNCHANGED << hasMedia, mime, text, prompt, content, invoiceData, pending, calls,
                  saved, sheet, clock >>

\* the append resolved: the rows are in the sheet; the handler builds the
\* recap from invoiceData and sends it and the confirmation, or catches the
\* TypeError of the template
AppendOk(m) ==
  /\ pc[m] = "append"
  /\ sheet' = sheet \o pending[m]
  /\ saved' = [saved EXCEPT ![m] = "ok"]
  /\ LET recap == RecapMessage(invoiceData[Slot(m)])
     IN  IF recap.kind = "throw"
         THEN Caught(m, recap.message)
         ELSE /\ replies' = [replies EXCEPT
                   ![m] = @ \o << RecapReply(recap.val), ConfirmReply >>]
              /\ pc' = [pc EXCEPT ![m] = "done"]
              /\ UNCHANGED caught
  /\ UNCHANGED << hasMedia, mime, text, prompt, content, invoiceData, pending, calls,
                  clock >>

\* the append rejected
AppendFail(m) ==
  /\ pc[m] = "append"
  /\ saved' = [saved EXCEPT ![m] = "failed"]
  /\ Caught(m, "append")
  /\ UNCHANGED << hasMedia, mime, text, prompt, content, invoiceData, pending, calls,
                  sheet, clock >>

Step(m, M, T, C) ==
  \/ Receive(m)
  \/ DownloadOk(m, M)
  \/ DownloadFail(m)
  \/ PdfOk(m, T)
  \/ PdfFail(m)
  \/ JimpOk(m)
  \/ JimpFail(m)
  \/ OcrOk(m, T)
  \/ OcrFail(m)
  \/ CompletionReturn(m, C)
  \/ CompletionEmpty(m)
  \/ CompletionFail(m)
  \/ AppendOk(m)
  \/ AppendFail(m)

----------------------------------------------------------------------------
(* Inputs: MIME types, extracted texts, completion contents *)

Q == "\""

\* a JSON string literal, a member, an object and an array as text
TStr(toks) == <<Q>> \o toks \o <<Q>>
Member(k, v) == TStr(<<k>>) \o <<":">> \o v

RECURSIVE JoinComma(_)
JoinComma(parts) ==
  IF parts = <<>> THEN <<>>
  ELSE IF Len(parts) = 1 THEN parts[1]
  ELSE parts[1] \o <<",", " ">> \o JoinComma(Tail(parts))

TObj(members) == <<"{">> \o JoinComma(members) \o <<"}">>
TArr(elements) == <<"[">> \o JoinComma(elements) \o <<"]">>

\* no member when the field is missing from the document
Opt(k, v) == IF v = <<>> THEN <<>> ELSE << Member(k, v) >>

TItem(name, price) ==
  TObj(<< Member("name", TStr(<<name>>)), Member("quantity", <<"2">>),
          Member("unitPrice", price), Member("subtotal", <<"100">>) >>)

Widget == TItem("Widget", <<"50">>)
Gadget == TItem("Gadget", <<"10">>)
Unpriced == TItem("Gadget", <<"null">>)

\* an invoice document; an empty value leaves the field out
TDoc(invoiceNo, date, items, tax, total) ==
  TObj(Opt("invoiceNo", invoiceNo) \o Opt("date", date)
       \o << Member("seller", TStr(<<"Seller Corp">>)),
             Member("buyer", <<"null">>) >>
       \o Opt("items", items) \o Opt("tax", tax) \o Opt("total", total))

\* the ways a completion wraps its document
Wraps == {"none", "space", "fence", "json", "javascript", "inline"}

Wrap(w, doc) ==
  CASE w = "none" -> doc
    [] w = "space" -> <<"\n", " ">> \o doc \o <<" ", "\n">>
    [] w = "fence" -> <<Fence, "\n">> \o doc \o <<"\n", Fence>>
    [] w = "json" -> <<" ", Fence, "json", "\n">> \o doc \o <<"\n", Fence, "\n">>
    [] w = "javascript" -> <<Fence, "javascript", "\n">> \o doc \o <<"\n", Fence>>
    [] w = "inline" -> <<Fence>> \o doc \o <<Fence>>

Fenced == {"fence", "json", "javascript", "inline"}

InvNo == TStr(<<"INV-0001">>)
Date == TStr(<<"12/01/2024">>)

InvoiceNos ==
  { <<>>, <<"null">>, TStr(<<>>), <<"0">>, <<"false">>, InvNo,
    TStr(<<"INV", Fence, "json", "7">>) }
Dates == { <<>>, <<"null">>, TStr(<<>>), Date }
Taxes ==
  { <<>>, <<"null">>, TStr(<<"10">>), <<"true">>, TArr(<<>>), TObj(<<>>),
    <<"0">>, <<"10">> }
Totals == { <<"null">>, <<"110">> }
ItemLists ==
  { <<>>, TArr(<<>>), TArr(<<Widget>>), TArr(<<Widget, Unpriced>>),
    TArr(<<Widget, <<"null">>>>) }

\* documents that are no invoice object, and texts that are no JSON
OddDocs ==
  { <<"null">>, <<"110">>, TStr(<<"INV-0001">>), TArr(<<InvNo>>), <<"true">>,
    <<"not", " ", "json">>, <<>>, <<"{", Q, "invoiceNo", Q, ":">>,
    TObj(<<Member("invoiceNo", InvNo)>>) \o <<"}">> }

\* every invoiceNo, date and tax with one item list and total, and every item
\* list, tax and total with one invoiceNo and date
InterpDocs ==
  { TDoc(n, d, TArr(<<Widget>>), x, <<"110">>) :
      n \in InvoiceNos, d \in Dates, x \in Taxes }
  \cup { TDoc(n, Date, i, x, t) :
      n \in {InvNo, TStr(<<"INV", Fence, "json", "7">>)},
      i \in ItemLists, x \in Taxes, t \in Totals }
  \cup OddDocs

InterpContents == { Wrap(w, doc) : w \in Wraps, doc \in InterpDocs }

GoodDoc == TDoc(InvNo, Date, TArr(<<Widget, Gadget>>), <<"10">>, <<"110">>)

\* the completions of the interleaved specification: a record that is
\* saved and recapped, one whose recap throws, one that is no JSON
HandlerContents ==
  { GoodDoc,
    Wrap("json", TDoc(InvNo, Date, TArr(<<Widget>>), <<>>, <<"null">>)),
    <<"not", " ", "json">> }

HandlerMimes == { PdfMime, <<"image", "/", "png">>, <<"text", "/", "plain">> }

Mimes ==
  { PdfMime, <<"image", "/", "png">>, <<"image", "/", "jpeg">>,
    <<"text", "/", "plain">>, <<"video", "/", "mp4">>,
    <<"application", "/", "vnd.oasis.opendocument.", "image">> }

ShortTexts == { <<"INV-0001", " ", "Total", " ", "110">> }

\* texts around the 4000-character cap: character i of the text with seed k
Slack == 2
Seeds == 4
Chars == <<"a", "b", "c", "d", "e">>
TextOf(len, k) == [i \in 1..len |-> Chars[((i * k) % Len(Chars)) + 1]]
LongTexts ==
  { TextOf(len, k) :
      len \in (0..Slack) \cup ((MaxPromptChars - Slack)..(MaxPromptChars + Slack)),
      k \in 1..Seeds }

Solo == {1}

----------------------------------------------------------------------------
(* Specifications *)

\* the message handler under interleaved messages
Init == InitOver(Msgs)
Next == \E m \in Msgs : Step(m, HandlerMimes, ShortTexts, HandlerContents)
Spec == Init /\ [][Next]_vars

\* one message, every completion content
InitInterp == InitOver(Solo)
NextInterp == \E m \in Solo : Step(m, Mimes, ShortTexts, InterpContents)
SpecInterp == InitInterp /\ [][NextInterp]_vars

\* one message, texts around the prompt cap
InitPrompt == InitOver(Solo)
NextPrompt == \E m \in Solo : Step(m, Mimes, LongTexts, HandlerContents)
SpecPrompt == InitPrompt /\ [][NextPrompt]_vars

----------------------------------------------------------------------------
(* Vocabulary of the properties *)

Ran == DOMAIN pc

Range(f) == { f[i] : i \in DOMAIN f }

\* the kinds of the replies sent for m, in order
ReplyKinds(m) == [i \in 1..Len(replies[m]) |-> replies[m][i].kind]

\* the completion of m arrived and parseWithOpenAI went through it
Interpreted(m) == content[m] # Unset

\* the handler of m holds a record
HasRecord(m) == invoiceData[m] # Undefined

\* what JSON.parse made of the cleaned completion of m
ParsedOf(m) == JSONParse(CleanContent(content[m]))

\* the number of rows whose append succeeded, over the messages of S
RECURSIVE RowsSaved(_)
RowsSaved(S) ==
  IF S = {} THEN 0
  ELSE LET m == CHOOSE x \in S : TRUE
       IN  (IF saved[m] = "ok" THEN Len(pending[m]) ELSE 0) + RowsSaved(S \ {m})

\* the InvoiceRecord data model
StringOrNull(v) == TypeOf(v) \in {"str", "null"}
NumberOrNull(v) == TypeOf(v) \in {"num", "null"}

IsLineItem(v) ==
  /\ TypeOf(v) = "obj"
  /\ StringOrNull(Get(v, "name"))
  /\ NumberOrNull(Get(v, "quantity"))
  /\ NumberOrNull(Get(v, "unitPrice"))
  /\ NumberOrNull(Get(v, "subtotal"))

IsInvoiceRecord(v) ==
  /\ TypeOf(v) = "obj"
  /\ TypeOf(Get(v, "invoiceNo")) = "str"
  /\ TypeOf(Get(v, "date")) = "str"
  /\ StringOrNull(Get(v, "seller"))
  /\ StringOrNull(Get(v, "buyer"))
  /\ TypeOf(Get(v, "items")) = "arr"
  /\ \A i \in 1..Len(Get(v, "items")[2]) : IsLineItem(Get(v, "items")[2][i])
  /\ TypeOf(Get(v, "tax")) = "num"
  /\ NumberOrNull(Get(v, "total"))

----------------------------------------------------------------------------
(* C1 *)

\* C1: a message with media ends in one of two outcomes: when processMedia
\* returned a record of the InvoiceRecord data model (a null total or a null
\* item price included) and the append succeeded, the replies are the recap
\* and then the confirmation; when a stage failed, the only reply is the
\* error notification with the failure's message.
C1_TwoOutcomes ==
  \A m \in Ran :
    (pc[m] = "done" /\ hasMedia[m]) =>
      /\ (HasRecord(m) /\ IsInvoiceRecord(invoiceData[m]) /\ saved[m] = "ok")
           => ReplyKinds(m) = <<"recap", "confirm">>
      /\ saved[m] # "ok" => replies[m] = << ErrorReply(caught[m]) >>

----------------------------------------------------------------------------
(* C10 *)

\* C10: the reply agrees with the sheet: an error notification is sent only
\* if no rows of the message were appended, the recap and the confirmation
\* only after its append succeeded, and never an error notification together
\* with the confirmation.
C10_ReplyAgreesWithSheet ==
  \A m \in Ran :
    /\ "error" \in Range(ReplyKinds(m)) => ~(saved[m] = "ok" /\ pending[m] # <<>>)
    /\ (Range(ReplyKinds(m)) \cap {"recap", "confirm"} # {}) => saved[m] = "ok"
    /\ ~({"error", "confirm"} \subseteq Range(ReplyKinds(m)))

----------------------------------------------------------------------------
(* C2 *)

\* how the run of parseWithOpenAI on the completion of m ended
FailedIncomplete(m) == ~HasRecord(m) /\ caught[m] = ErrIncomplete

MissingOrNull(v) == TypeOf(v) \in {"undefined", "null"}

\* the values JavaScript's ! takes for false, among the JSON values
FalsyValues == { Undefined, Null, Bool(FALSE), Num(0), Str(<<>>) }

\* C2 as stated: parseWithOpenAI fails with the incomplete-invoice error
\* exactly when invoiceNo or date is missing or null, returning no record;
\* in every other case it returns a record.
C2_IncompleteIffMissingOrNull ==
  \A m \in Ran :
    (Interpreted(m) /\ ParsedOf(m).ok) =>
      LET parsed == ParsedOf(m).val
          missing == IF TypeOf(parsed) = "obj"
                     THEN \/ MissingOrNull(Get(parsed, "invoiceNo"))
                          \/ MissingOrNull(Get(parsed, "date"))
                     ELSE TRUE
      IN  /\ FailedIncomplete(m) <=> missing
          /\ HasRecord(m) <=> ~missing

\* C2 as amended: for a parsed JSON other than null, parseWithOpenAI fails
\* with the incomplete-invoice error exactly when invoiceNo or date is falsy
\* (missing, null, false, 0 or the empty string), returning no record, and
\* in every other case it returns a record; for the JSON null it fails with
\* a TypeError and no record; every record returned has a non-null invoiceNo
\* and date.
C2_IncompleteIffFalsy ==
  \A m \in Ran :
    /\ (Interpreted(m) /\ ParsedOf(m).ok) =>
         LET parsed == ParsedOf(m).val
             falsy == IF TypeOf(parsed) = "obj"
                      THEN \/ Get(parsed, "invoiceNo") \in FalsyValues
                           \/ Get(parsed, "date") \in FalsyValues
                      ELSE TRUE
         IN  IF parsed = Null
             THEN ~HasRecord(m) /\ caught[m] = ErrType
             ELSE /\ FailedIncomplete(m) <=> falsy
                  /\ HasRecord(m) <=> ~falsy
    /\ HasRecord(m) =>
         /\ ~MissingOrNull(Get(invoiceData[m], "invoiceNo"))
         /\ ~MissingOrNull(Get(invoiceData[m], "date"))

\* an empty-string invoiceNo was rejected as incomplete
C2_Witness ==
  \E m \in Ran :
    /\ Interpreted(m) /\ ParsedOf(m).ok /\ FailedIncomplete(m)
    /\ Get(ParsedOf(m).val, "invoiceNo") = Str(<<>>)
    /\ TypeOf(Get(ParsedOf(m).val, "date")) = "str"

----------------------------------------------------------------------------
(* C3 *)

LanguageTags == {"json", "javascript"}

\* a completion that is one fenced code block: an opening fence, an optional
\* language tag, the enclosed text, a closing fence
IsFencedBlock(c) ==
  LET t == Trim(c)
  IN  Len(t) >= 2 /\ t[1] = Fence /\ t[Len(t)] = Fence

\* the text a fenced code block encloses
Enclosed(c) ==
  LET t == Trim(c)
      from == IF Len(t) >= 3 /\ t[2] \in LanguageTags THEN 3 ELSE 2
  IN  SubSeq(t, from, Len(t) - 1)

\* the result of parseWithOpenAI for m, as the handler saw it
ResultOf(m) ==
  IF HasRecord(m) THEN Return(invoiceData[m]) ELSE Throw(caught[m])

\* C3: a JSON document in a fenced code block, with or without a language
\* tag of any name, gives the result the same document gives unfenced: the
\* same record with the same field values, or the same failure.
C3_FenceTransparent ==
  \A m \in Ran :
    (Interpreted(m) /\ IsFencedBlock(content[m]) /\ JSONParse(Enclosed(content[m])).ok)
      => ResultOf(m) = parseWithOpenAI(Enclosed(content[m]))

----------------------------------------------------------------------------
(* C4 *)

\* image/<subtype>
IsImageSubtype(mt) == Len(mt) >= 3 /\ mt[1] = "image" /\ mt[2] = "/"

\* C4: a MIME type that is neither application/pdf nor image/<subtype> ends
\* the run with the unsupported-media-type error and without a document
\* parse, image decode, OCR or completion call; application/pdf and
\* image/<subtype> do not raise that error.
C4_UnsupportedMime ==
  \A m \in Ran :
    mime[m] # Unset =>
      IF mime[m] = PdfMime \/ IsImageSubtype(mime[m])
      THEN caught[m] # ErrUnsupported
      ELSE /\ pc[m] = "done"
           /\ caught[m] = ErrUnsupported
           /\ calls[m] = NoCalls

----------------------------------------------------------------------------
(* C5 *)

\* s occurs in t as a run of consecutive rows
OccursIn(s, t) ==
  \E k \in 0..(Len(t) - Len(s)) : SubSeq(t, k + 1, k + Len(s)) = s

\* the items of a record are a sequence of line-item objects
HasItemList(rec) ==
  /\ TypeOf(Get(rec, "items")) = "arr"
  /\ \A i \in 1..Len(Get(rec, "items")[2]) : TypeOf(Get(rec, "items")[2][i]) = "obj"

----------------------------------------------------------------------------
(* C6 *)

\* the members of an object other than tax, in order
OtherMembers(o) ==
  LET NotTax(member) == member[1] # Key("tax")
  IN  SelectSeq(o[2], NotTax)

\* C6: every record parseWithOpenAI returns has a numeric tax: 0 when the
\* parsed JSON has no tax or one that is no number, the parsed number
\* otherwise; no other field of the parsed JSON is altered.
C6_TaxNumeric ==
  \A m \in Ran :
    HasRecord(m) =>
      LET parsed == ParsedOf(m).val
          rec == invoiceData[m]
          tax == Get(parsed, "tax")
      IN  /\ TypeOf(Get(rec, "tax")) = "num"
          /\ Get(rec, "tax") = IF TypeOf(tax) = "num" THEN tax ELSE Num(0)
          /\ OtherMembers(rec) = OtherMembers(parsed)

\* a record whose tax came as a string and left as 0
C6_Witness ==
  \E m \in Ran :
    /\ HasRecord(m)
    /\ TypeOf(Get(ParsedOf(m).val, "tax")) = "str"
    /\ Get(invoiceData[m], "tax") = Num(0)

----------------------------------------------------------------------------
(* C8 *)

\* C8: a completion that, trimmed and cleaned of its fence, is no valid JSON
\* makes parseWithOpenAI fail with the malformed-response error and no
\* record, and nothing is appended; there is no retry: one
\* completion-endpoint call per parseWithOpenAI invocation, whatever its
\* outcome.
C8_MalformedNoRetry ==
  \A m \in Ran :
    /\ (Interpreted(m) /\ ~ParsedOf(m).ok) =>
         /\ ~HasRecord(m)
         /\ pc[m] = "done"
         /\ replies[m] = << ErrorReply(ErrSyntax) >>
         /\ calls[m].append = 0
    /\ calls[m].completion = IF text[m] = Unset THEN 0 ELSE 1

\* the completion "not json" was received and rejected
C8_Witness ==
  \E m \in Ran :
    /\ content[m] = <<"not", " ", "json">>
    /\ pc[m] = "done"
    /\ calls[m].completion = 1

----------------------------------------------------------------------------
(* C9 *)

\* C9: the part of the text embedded in the prompt is exactly its first
\* min(length, 4000) characters.
C9_PromptPrefix ==
  \A m \in Ran :
    prompt[m] # Unset =>
      LET n == Min(Len(text[m]), MaxPromptChars)
          h == Len(PromptHead)
      IN  /\ Len(prompt[m]) = h + n + Len(PromptTail)
          /\ SubSeq(prompt[m], 1, h) = PromptHead
          /\ \A i \in 1..n : prompt[m][h + i] = text[m][i]
          /\ SubSeq(prompt[m], h + n + 1, Len(prompt[m])) = PromptTail

\* a text longer than the cap went into a prompt
C9_Witness ==
  \E m \in Ran :
    /\ prompt[m] # Unset
    /\ Len(text[m]) > MaxPromptChars
    /\ Len(prompt[m]) = Len(PromptHead) + MaxPromptChars + Len(PromptTail)

----------------------------------------------------------------------------
(* C7 *)

\* C7: under any interleaving each message makes at most one completion
\* call and one append call and holds at most one record, and its prompt,
\* record, appended rows and replies are those its own text and its own
\* completion determine; the sheet holds the rows of the messages whose
\* append succeeded and nothing else.
C7_NoCrossTalk ==
  /\ \A m \in Ran :
       /\ calls[m].completion <= 1
       /\ calls[m].append <= 1
       /\ prompt[m] = IF text[m] = Unset THEN Unset ELSE BuildPrompt(text[m])
       /\ LET own == IF Interpreted(m) THEN parseWithOpenAI(content[m])
                     ELSE Throw(NoError)
          IN  /\ invoiceData[m] = own.val
              /\ calls[m].append = 1 =>
                   \E t \in 0..clock : SheetRows(own.val, t) = Return(pending[m])
              /\ calls[m].append = 0 => pending[m] = <<>>
              /\ saved[m] = "ok" =>
                   /\ OccursIn(pending[m], sheet)
                   /\ replies[m] =
                        IF RecapMessage(own.val).kind = "throw"
                        THEN << ErrorReply(ErrType) >>
                        ELSE << RecapReply(RecapMessage(own.val).val), ConfirmReply >>
              /\ saved[m] # "ok" =>
                   replies[m] = IF pc[m] = "done" /\ hasMedia[m]
                                THEN << ErrorReply(caught[m]) >> ELSE <<>>
  /\ Len(sheet) = RowsSaved(Ran)

\* two messages with different completions, both saved, the rows of the
\* later message first in the sheet
C7_Witness ==
  \E m, n \in Ran :
    /\ m < n
    /\ saved[m] = "ok" /\ saved[n] = "ok"
    /\ content[m] # content[n]
    /\ pending[m] # pending[n]
    /\ SubSeq(sheet, 1, Len(pending[n])) = pending[n]
    /\ pc[m] = "done" /\ pc[n] = "done"

====
